---- MODULE Spec2Model ----
(***************************************************************************)
(* Model of core/future-util.hh: the future combinators parallel_for_each, *)
(* do_until, keep_doing, do_for_each and when_all, run on a single-threaded *)
(* reactor.  One combinator call is verified per behaviour; the action the *)
(* combinator drives is described by `plan`, which fixes, per invocation,  *)
(* what the action does (returns a ready or a pending future, succeeds or  *)
(* fails, or throws).                                                      *)
(***************************************************************************)
EXTENDS Integers, Sequences, FiniteSets, TLC

\* Longest range / largest number of action invocations that is planned.
MaxN == 3

Combinators == {"do_for_each", "do_until", "keep_doing", "parallel_for_each", "when_all"}

\* What one invocation of the action does:
\*   rok / rfail : returns a future already resolved to success / failure
\*   pok / pfail : returns a pending future the reactor later resolves
\*   throw       : throws before a future is obtained
Kinds == {"rok", "rfail", "pok", "pfail", "throw"}
FutureKinds == Kinds \ {"throw"}

NoErr == 0
\* Failure reported for a promise destroyed without ever being written.
BrokenPromise == 0 - 1

VARIABLES
    comb,      \* the combinator under call
    plan,      \* plan[i]: behaviour of the i-th element's action / i-th invocation / i-th input
    kstop,     \* do_until: stop_cond() is true once kstop invocations were made
    pc,        \* "start" before the call, "called" after the entry point was left
    started,   \* elements (invocation numbers) the action was invoked on, in order
    fut,       \* fut[i]: the future returned by the action for element / invocation i
    cont,      \* cont[i]: a continuation is attached to the pending fut[i]
    tasks,     \* the reactor's queue of scheduled continuations (FIFO)
    join,      \* parallel_for_each: join[i] is `ret` after element i; when_all: result of level i
    link,      \* link[i]: join[i] is forwarded the outcome of its pending predecessor
    out,       \* the future handed back to the caller ("none" while there is none)
    esc,       \* exception that left the combinator's entry point (NoErr if none)
    evals,     \* do_until: number of evaluations of stop_cond
    pwrites,   \* do_until: number of writes (set_value / forward_to) to the promise p
    depth,     \* deepest nesting of combinator frames in the last handler
    resolved   \* history: the pending futures the reactor resolved, in order

vars == <<comb, plan, kstop, pc, started, fut, cont, tasks, join, link, out, esc,
          evals, pwrites, depth, resolved>>

----------------------------------------------------------------------------
\* The future / promise primitive (future.hh)

Fut(st, err) == [st |-> st, err |-> err, val |-> <<>>]

NoFuture == Fut("none", NoErr)
PendingFuture == Fut("pending", NoErr)
make_ready_future == Fut("ok", NoErr)
make_exception_future(e) == Fut("fail", e)
make_ready_tuple(t) == [st |-> "ok", err |-> NoErr, val |-> t]

available(f) == f.st \in {"ok", "fail"}
failed(f) == f.st = "fail"

\* The exception object of the i-th invocation's failure.
ErrOf(i) == i

KindOf(i) == IF i \in 1..Len(plan) THEN plan[i] ELSE "never"

\* The future the action hands back on its i-th invocation.
ActionFuture(i) ==
    CASE KindOf(i) = "rok"   -> make_ready_future
      [] KindOf(i) = "rfail" -> make_exception_future(ErrOf(i))
      [] OTHER               -> PendingFuture

\* The state a pending action future is resolved to by the reactor.
Outcome(i) ==
    IF KindOf(i) = "pok" THEN make_ready_future ELSE make_exception_future(ErrOf(i))

\* A promise destroyed unwritten: its future stays pending for ever, or is
\* failed with a broken-promise error, depending on the primitive.
abandoned(bp) == IF bp THEN make_exception_future(BrokenPromise) ELSE PendingFuture

Task(i, stage) == [i |-> i, stage |-> stage]

\* The handler state: everything a combinator's code can change.
Cur == [started |-> started, fut |-> fut, cont |-> cont, tasks |-> tasks,
        join |-> join, link |-> link, out |-> out,
        evals |-> evals, pwrites |-> pwrites, depth |-> depth,
        r |-> NoFuture]

Commit(h) ==
    /\ started' = h.started
    /\ fut' = h.fut
    /\ cont' = h.cont
    /\ tasks' = h.tasks
    /\ join' = h.join
    /\ link' = h.link
    /\ out' = h.out
    /\ evals' = h.evals
    /\ pwrites' = h.pwrites
    /\ depth' = h.depth

\* r marks an exception propagating out of the code that was run.
Thrown(e) == Fut("thrown", e)

\* action(*begin++) / action(): invoke the action for the i-th time.
invoke(h, i) ==
    [h EXCEPT !.started = Append(@, i),
              !.fut[i] = IF KindOf(i) = "throw" THEN @ ELSE ActionFuture(i)]

----------------------------------------------------------------------------
\* do_for_each

RECURSIVE do_for_each(_, _)
\* Variant: a pending future is not waited for.
do_for_each_nowait(begin, h) ==
    IF begin > Len(plan)
    THEN [h EXCEPT !.r = make_ready_future]
    ELSE LET h1 == invoke(h, begin)
         IN IF KindOf(begin) = "throw"
            THEN [h1 EXCEPT !.r = Thrown(ErrOf(begin))]
            ELSE do_for_each(begin + 1, h1)

\* Variant: the action is invoked before begin is compared with end.
do_for_each_dowhile(begin, h) ==
    LET h1 == invoke(h, begin)
        f == h1.fut[begin]
    IN IF KindOf(begin) = "throw"
       THEN [h1 EXCEPT !.r = Thrown(ErrOf(begin))]
       ELSE IF ~available(f)
            THEN [h1 EXCEPT !.cont[begin] = TRUE, !.r = PendingFuture]
            ELSE IF begin + 1 > Len(plan)
                 THEN [h1 EXCEPT !.r = make_ready_future]
                 ELSE do_for_each(begin + 1, h1)

\* Variant: an available future is followed by a nested call instead of
\* another turn of the loop.
do_for_each_recursive(begin, h) ==
    IF begin > Len(plan)
    THEN [h EXCEPT !.r = make_ready_future]
    ELSE LET h1 == invoke(h, begin)
             f == h1.fut[begin]
         IN IF KindOf(begin) = "throw"
            THEN [h1 EXCEPT !.r = Thrown(ErrOf(begin))]
            ELSE IF ~available(f)
                 THEN [h1 EXCEPT !.cont[begin] = TRUE, !.r = PendingFuture]
                 ELSE do_for_each(begin + 1, [h1 EXCEPT !.depth = @ + 1])

do_for_each(begin, h) ==
    IF begin > Len(plan)
    THEN [h EXCEPT !.r = make_ready_future]
    ELSE LET h1 == invoke(h, begin)
             f == h1.fut[begin]
         IN IF KindOf(begin) = "throw"
            THEN [h1 EXCEPT !.r = Thrown(ErrOf(begin))]
            ELSE IF ~available(f)
                 THEN [h1 EXCEPT !.cont[begin] = TRUE, !.r = PendingFuture]
                 ELSE do_for_each(begin + 1, h1)

\* The caller invokes do_for_each(begin, end, action).
Call_do_for_each ==
    /\ pc = "start"
    /\ comb = "do_for_each"
    /\ LET h == do_for_each(1, [Cur EXCEPT !.depth = 1])
       IN IF h.r.st = "thrown"
          THEN /\ Commit(h)
               /\ esc' = h.r.err
          ELSE /\ Commit([h EXCEPT !.out = h.r])
               /\ esc' = esc
    /\ pc' = "called"
    /\ UNCHANGED <<comb, plan, kstop, resolved>>

\* The reactor runs the continuation that do_for_each attached to fut[t.i].
Task_do_for_each ==
    /\ comb = "do_for_each"
    /\ tasks # <<>>
    /\ LET t == Head(tasks)
           h0 == [Cur EXCEPT !.tasks = Tail(tasks), !.depth = 1]
       IN IF failed(fut[t.i])
          THEN Commit([h0 EXCEPT !.out = make_exception_future(fut[t.i].err)])
          ELSE LET h == do_for_each(t.i + 1, h0)
               IN IF h.r.st = "thrown"
                  THEN Commit([h EXCEPT !.out = make_exception_future(h.r.err)])
                  ELSE Commit([h EXCEPT !.out = h.r])
    /\ UNCHANGED <<comb, plan, kstop, pc, esc, resolved>>

----------------------------------------------------------------------------
\* do_until

\* The caller's predicate: true once kstop invocations of the action were made.
stop_cond(h) == Len(h.started) >= kstop

\* h.out is the future of the promise p.
RECURSIVE do_until_continued(_)
\* Variant: the test of f.failed() is inverted.
do_until_continued_inverted(h) ==
    LET h0 == [h EXCEPT !.evals = @ + 1]
        inv == Len(h.started) + 1
    IN IF stop_cond(h)
       THEN [h0 EXCEPT !.out = make_ready_future, !.pwrites = @ + 1]
       ELSE LET h1 == invoke(h0, inv)
                f == h1.fut[inv]
            IN IF KindOf(inv) = "throw"
               THEN [h1 EXCEPT !.r = Thrown(ErrOf(inv))]
               ELSE IF ~available(f)
                    THEN [h1 EXCEPT !.cont[inv] = TRUE]
                    ELSE IF ~failed(f)
                         THEN [h1 EXCEPT !.out = f, !.pwrites = @ + 1]
                         ELSE do_until_continued(h1)

\* Variant: the loop goes on after a continuation was attached.
do_until_continued_noreturn(h) ==
    LET h0 == [h EXCEPT !.evals = @ + 1]
        inv == Len(h.started) + 1
    IN IF stop_cond(h)
       THEN [h0 EXCEPT !.out = make_ready_future, !.pwrites = @ + 1]
       ELSE LET h1 == invoke(h0, inv)
                f == h1.fut[inv]
            IN IF KindOf(inv) = "throw"
               THEN [h1 EXCEPT !.r = Thrown(ErrOf(inv))]
               ELSE IF ~available(f)
                    THEN do_until_continued([h1 EXCEPT !.cont[inv] = TRUE])
                    ELSE IF failed(f)
                         THEN [h1 EXCEPT !.out = make_exception_future(f.err),
                                         !.pwrites = @ + 1]
                         ELSE do_until_continued(h1)

\* Variant: the loop goes on after the failure was forwarded to p.
do_until_continued_fallthrough(h) ==
    LET h0 == [h EXCEPT !.evals = @ + 1]
        inv == Len(h.started) + 1
    IN IF stop_cond(h)
       THEN [h0 EXCEPT !.out = make_ready_future, !.pwrites = @ + 1]
       ELSE LET h1 == invoke(h0, inv)
                f == h1.fut[inv]
            IN IF KindOf(inv) = "throw"
               THEN [h1 EXCEPT !.r = Thrown(ErrOf(inv))]
               ELSE IF ~available(f)
                    THEN [h1 EXCEPT !.cont[inv] = TRUE]
                    ELSE IF failed(f)
                         THEN do_until_continued(
                                  [h1 EXCEPT !.out = make_exception_future(f.err),
                                             !.pwrites = @ + 1])
                         ELSE do_until_continued(h1)

do_until_continued(h) ==
    LET h0 == [h EXCEPT !.evals = @ + 1]
        inv == Len(h.started) + 1
    IN IF stop_cond(h)
       THEN [h0 EXCEPT !.out = make_ready_future, !.pwrites = @ + 1]
       ELSE LET h1 == invoke(h0, inv)
                f == h1.fut[inv]
            IN IF KindOf(inv) = "throw"
               THEN [h1 EXCEPT !.r = Thrown(ErrOf(inv))]
               ELSE IF ~available(f)
                    THEN [h1 EXCEPT !.cont[inv] = TRUE]
                    ELSE IF failed(f)
                         THEN [h1 EXCEPT !.out = make_exception_future(f.err),
                                         !.pwrites = @ + 1]
                         ELSE do_until_continued(h1)

do_until(h) == do_until_continued([h EXCEPT !.out = PendingFuture])

\* The caller invokes do_until(stop_cond, action).
Call_do_until ==
    /\ pc = "start"
    /\ comb = "do_until"
    /\ LET h == do_until([Cur EXCEPT !.depth = 1])
       IN IF h.r.st = "thrown"
          THEN /\ Commit([h EXCEPT !.out = NoFuture])
               /\ esc' = h.r.err
          ELSE /\ Commit(h)
               /\ esc' = esc
    /\ pc' = "called"
    /\ UNCHANGED <<comb, plan, kstop, resolved>>

\* Variant: the continuation runs whatever the outcome of fut[t.i].
Task_do_until_wrapped ==
    /\ comb = "do_until"
    /\ tasks # <<>>
    /\ \E bp \in BOOLEAN :
         LET t == Head(tasks)
             h0 == [Cur EXCEPT !.tasks = Tail(tasks), !.depth = 1]
             h == do_until_continued(h0)
         IN IF h.r.st = "thrown"
            THEN Commit([h EXCEPT !.out = abandoned(bp)])
            ELSE Commit(h)
    /\ UNCHANGED <<comb, plan, kstop, pc, esc, resolved>>

\* The reactor runs the continuation that do_until_continued attached to
\* fut[t.i].  The future f.then() returned was discarded, so a failure of
\* fut[t.i] and an exception of the continuation have nowhere to go, and the
\* promise p the continuation owned is destroyed unwritten.
Task_do_until ==
    /\ comb = "do_until"
    /\ tasks # <<>>
    /\ \E bp \in BOOLEAN :
         LET t == Head(tasks)
             h0 == [Cur EXCEPT !.tasks = Tail(tasks), !.depth = 1]
         IN IF failed(fut[t.i])
            THEN Commit([h0 EXCEPT !.out = abandoned(bp)])
            ELSE LET h == do_until_continued(h0)
                 IN IF h.r.st = "thrown"
                    THEN Commit([h EXCEPT !.out = abandoned(bp)])
                    ELSE Commit(h)
    /\ UNCHANGED <<comb, plan, kstop, pc, esc, resolved>>

----------------------------------------------------------------------------
\* keep_doing

Max(a, b) == IF a >= b THEN a ELSE b

Defers == [1..MaxN -> BOOLEAN]

\* d[i]: then() on the already available fut[i] schedules the continuation
\* instead of running it at once.
RECURSIVE keep_doing(_, _, _)
\* Variant: the continuation runs whatever the outcome of the action.
keep_doing_wrapped(h, d, nest) ==
    LET inv == Len(h.started) + 1
        h1 == [invoke(h, inv) EXCEPT !.depth = Max(@, nest)]
        f == h1.fut[inv]
    IN IF KindOf(inv) = "throw"
       THEN [h1 EXCEPT !.r = make_exception_future(ErrOf(inv))]
       ELSE IF ~available(f)
            THEN [h1 EXCEPT !.cont[inv] = TRUE, !.r = PendingFuture]
            ELSE IF d[inv]
                 THEN [h1 EXCEPT !.tasks = Append(@, Task(inv, 1)), !.r = PendingFuture]
                 ELSE keep_doing(h1, d, nest + 1)

\* Variant: the continuation hands back a ready future instead of repeating.
keep_doing_once(h, d, nest) ==
    LET inv == Len(h.started) + 1
        h1 == [invoke(h, inv) EXCEPT !.depth = Max(@, nest)]
        f == h1.fut[inv]
    IN IF inv > 1
       THEN [h EXCEPT !.r = make_ready_future]
       ELSE IF KindOf(inv) = "throw"
            THEN [h1 EXCEPT !.r = make_exception_future(ErrOf(inv))]
            ELSE IF ~available(f)
                 THEN [h1 EXCEPT !.cont[inv] = TRUE, !.r = PendingFuture]
                 ELSE IF d[inv]
                      THEN [h1 EXCEPT !.tasks = Append(@, Task(inv, 1)), !.r = PendingFuture]
                      ELSE IF failed(f)
                           THEN [h1 EXCEPT !.r = make_exception_future(f.err)]
                           ELSE keep_doing(h1, d, nest + 1)

\* Variant: no try / catch around the invocation of the action.
keep_doing_nocatch(h, d, nest) ==
    LET inv == Len(h.started) + 1
        h1 == [invoke(h, inv) EXCEPT !.depth = Max(@, nest)]
        f == h1.fut[inv]
    IN IF KindOf(inv) = "throw"
       THEN [h1 EXCEPT !.r = Thrown(ErrOf(inv))]
       ELSE IF ~available(f)
            THEN [h1 EXCEPT !.cont[inv] = TRUE, !.r = PendingFuture]
            ELSE IF d[inv]
                 THEN [h1 EXCEPT !.tasks = Append(@, Task(inv, 1)), !.r = PendingFuture]
                 ELSE IF failed(f)
                      THEN [h1 EXCEPT !.r = make_exception_future(f.err)]
                      ELSE keep_doing(h1, d, nest + 1)

keep_doing(h, d, nest) ==
    LET inv == Len(h.started) + 1
        h1 == [invoke(h, inv) EXCEPT !.depth = Max(@, nest)]
        f == h1.fut[inv]
    IN IF KindOf(inv) = "throw"
       THEN [h1 EXCEPT !.r = make_exception_future(ErrOf(inv))]
       ELSE IF ~available(f)
            THEN [h1 EXCEPT !.cont[inv] = TRUE, !.r = PendingFuture]
            ELSE IF d[inv]
                 THEN [h1 EXCEPT !.tasks = Append(@, Task(inv, 1)), !.r = PendingFuture]
                 ELSE IF failed(f)
                      THEN [h1 EXCEPT !.r = make_exception_future(f.err)]
                      ELSE keep_doing(h1, d, nest + 1)

\* The caller invokes keep_doing(action).
Call_keep_doing ==
    /\ pc = "start"
    /\ comb = "keep_doing"
    /\ \E d \in Defers :
         LET h == keep_doing([Cur EXCEPT !.depth = 1], d, 1)
         IN IF h.r.st = "thrown"
            THEN /\ Commit(h)
                 /\ esc' = h.r.err
            ELSE /\ Commit([h EXCEPT !.out = h.r])
                 /\ esc' = esc
    /\ pc' = "called"
    /\ UNCHANGED <<comb, plan, kstop, resolved>>

\* The reactor runs the continuation that keep_doing attached to fut[t.i].
Task_keep_doing ==
    /\ comb = "keep_doing"
    /\ tasks # <<>>
    /\ \E d \in Defers :
         LET t == Head(tasks)
             h0 == [Cur EXCEPT !.tasks = Tail(tasks), !.depth = 1]
         IN IF failed(fut[t.i])
            THEN Commit([h0 EXCEPT !.out = make_exception_future(fut[t.i].err)])
            ELSE LET h == keep_doing(h0, d, 1)
                 IN IF h.r.st = "thrown"
                    THEN Commit([h EXCEPT !.out = make_exception_future(h.r.err)])
                    ELSE Commit([h EXCEPT !.out = h.r])
    /\ UNCHANGED <<comb, plan, kstop, pc, esc, resolved>>

----------------------------------------------------------------------------
\* parallel_for_each

\* join[begin - 1] is `ret` before element begin, join[begin] is `ret` after it.
RECURSIVE parallel_for_each(_, _, _)
\* Variant: the loop is left at the first future found failed.
parallel_for_each_short(begin, h, d) ==
    IF begin > Len(plan)
    THEN [h EXCEPT !.r = h.join[Len(plan)]]
    ELSE LET h1 == invoke(h, begin)
             f == h1.fut[begin]
             ret == h1.join[begin - 1]
         IN IF KindOf(begin) = "throw"
            THEN [h1 EXCEPT !.r = Thrown(ErrOf(begin))]
            ELSE IF available(f) /\ failed(f)
                 THEN [h1 EXCEPT !.r = make_exception_future(f.err)]
                 ELSE LET h2 ==
                            IF ~available(f)
                            THEN [h1 EXCEPT !.cont[begin] = TRUE,
                                            !.join[begin] = PendingFuture]
                            ELSE IF d[begin]
                                 THEN [h1 EXCEPT !.tasks = Append(@, Task(begin, 1)),
                                                 !.join[begin] = PendingFuture]
                                 ELSE [h1 EXCEPT !.join[begin] = ret,
                                                 !.link[begin] = ~available(ret)]
                      IN parallel_for_each(begin + 1, h2, d)

\* Variant: the continuation does not hand back the captured `ret`.
parallel_for_each_unchained(begin, h, d) ==
    IF begin > Len(plan)
    THEN [h EXCEPT !.r = h.join[Len(plan)]]
    ELSE LET h1 == invoke(h, begin)
             f == h1.fut[begin]
         IN IF KindOf(begin) = "throw"
            THEN [h1 EXCEPT !.r = Thrown(ErrOf(begin))]
            ELSE LET h2 ==
                       IF ~available(f)
                       THEN [h1 EXCEPT !.cont[begin] = TRUE, !.join[begin] = PendingFuture]
                       ELSE IF d[begin]
                            THEN [h1 EXCEPT !.tasks = Append(@, Task(begin, 1)),
                                            !.join[begin] = PendingFuture]
                            ELSE IF failed(f)
                                 THEN [h1 EXCEPT !.join[begin] = make_exception_future(f.err)]
                                 ELSE [h1 EXCEPT !.join[begin] = make_ready_future]
                 IN parallel_for_each(begin + 1, h2, d)

\* Variant: a failed future is chained like a successful one.
parallel_for_each_swallow(begin, h, d) ==
    IF begin > Len(plan)
    THEN [h EXCEPT !.r = h.join[Len(plan)]]
    ELSE LET h1 == invoke(h, begin)
             f == h1.fut[begin]
             ret == h1.join[begin - 1]
         IN IF KindOf(begin) = "throw"
            THEN [h1 EXCEPT !.r = Thrown(ErrOf(begin))]
            ELSE LET h2 ==
                       IF ~available(f)
                       THEN [h1 EXCEPT !.cont[begin] = TRUE, !.join[begin] = PendingFuture]
                       ELSE IF d[begin]
                            THEN [h1 EXCEPT !.tasks = Append(@, Task(begin, 1)),
                                            !.join[begin] = PendingFuture]
                            ELSE [h1 EXCEPT !.join[begin] = ret,
                                            !.link[begin] = ~available(ret)]
                 IN parallel_for_each(begin + 1, h2, d)

parallel_for_each(begin, h, d) ==
    IF begin > Len(plan)
    THEN [h EXCEPT !.r = h.join[Len(plan)]]
    ELSE LET h1 == invoke(h, begin)
             f == h1.fut[begin]
             ret == h1.join[begin - 1]
         IN IF KindOf(begin) = "throw"
            THEN [h1 EXCEPT !.r = Thrown(ErrOf(begin))]
            ELSE LET h2 ==
                       IF ~available(f)
                       THEN [h1 EXCEPT !.cont[begin] = TRUE, !.join[begin] = PendingFuture]
                       ELSE IF d[begin]
                            THEN [h1 EXCEPT !.tasks = Append(@, Task(begin, 1)),
                                            !.join[begin] = PendingFuture]
                            ELSE IF failed(f)
                                 THEN [h1 EXCEPT !.join[begin] = make_exception_future(f.err)]
                                 ELSE [h1 EXCEPT !.join[begin] = ret,
                                                 !.link[begin] = ~available(ret)]
                 IN parallel_for_each(begin + 1, h2, d)

\* A join future that was forwarded its predecessor resolves with it.
RECURSIVE forward(_, _)
forward(j, h) ==
    IF j > Len(plan)
    THEN h
    ELSE IF h.link[j] /\ ~available(h.join[j]) /\ available(h.join[j - 1])
         THEN forward(j + 1, [h EXCEPT !.join[j] = h.join[j - 1], !.link[j] = FALSE])
         ELSE forward(j + 1, h)

\* The caller invokes parallel_for_each(begin, end, func).
Call_parallel_for_each ==
    /\ pc = "start"
    /\ comb = "parallel_for_each"
    /\ \E d \in Defers :
         LET h == parallel_for_each(1, [Cur EXCEPT !.join[0] = make_ready_future,
                                                   !.depth = 1], d)
         IN IF h.r.st = "thrown"
            THEN /\ Commit(h)
                 /\ esc' = h.r.err
            ELSE /\ Commit([h EXCEPT !.out = h.r])
                 /\ esc' = esc
    /\ pc' = "called"
    /\ UNCHANGED <<comb, plan, kstop, resolved>>

\* Variant: every continuation reports its failure to the returned future.
Task_parallel_for_each_shared ==
    /\ comb = "parallel_for_each"
    /\ tasks # <<>>
    /\ LET t == Head(tasks)
           h0 == [Cur EXCEPT !.tasks = Tail(tasks), !.depth = 1]
           h1 == IF failed(fut[t.i])
                 THEN [h0 EXCEPT !.join[t.i] = make_exception_future(fut[t.i].err)]
                 ELSE IF available(h0.join[t.i - 1])
                      THEN [h0 EXCEPT !.join[t.i] = h0.join[t.i - 1]]
                      ELSE [h0 EXCEPT !.link[t.i] = TRUE]
           h == forward(1, h1)
       IN Commit([h EXCEPT !.out = IF out.st = "none" THEN out
                                   ELSE IF failed(fut[t.i])
                                        THEN make_exception_future(fut[t.i].err)
                                        ELSE h.join[Len(plan)]])
    /\ UNCHANGED <<comb, plan, kstop, pc, esc, resolved>>

\* Variant: a failure `ret` already carries wins over the element's own.
Task_parallel_for_each_swapped ==
    /\ comb = "parallel_for_each"
    /\ tasks # <<>>
    /\ LET t == Head(tasks)
           h0 == [Cur EXCEPT !.tasks = Tail(tasks), !.depth = 1]
           h1 == IF failed(h0.join[t.i - 1])
                 THEN [h0 EXCEPT !.join[t.i] = h0.join[t.i - 1]]
                 ELSE IF failed(fut[t.i])
                      THEN [h0 EXCEPT !.join[t.i] = make_exception_future(fut[t.i].err)]
                      ELSE IF available(h0.join[t.i - 1])
                           THEN [h0 EXCEPT !.join[t.i] = h0.join[t.i - 1]]
                           ELSE [h0 EXCEPT !.link[t.i] = TRUE]
           h == forward(1, h1)
       IN Commit([h EXCEPT !.out = IF out.st = "none" THEN out ELSE h.join[Len(plan)]])
    /\ UNCHANGED <<comb, plan, kstop, pc, esc, resolved>>

\* The reactor runs the continuation attached to func(*begin)'s future for
\* element t.i: it hands back the captured `ret`.
Task_parallel_for_each ==
    /\ comb = "parallel_for_each"
    /\ tasks # <<>>
    /\ LET t == Head(tasks)
           h0 == [Cur EXCEPT !.tasks = Tail(tasks), !.depth = 1]
           h1 == IF failed(fut[t.i])
                 THEN [h0 EXCEPT !.join[t.i] = make_exception_future(fut[t.i].err)]
                 ELSE IF available(h0.join[t.i - 1])
                      THEN [h0 EXCEPT !.join[t.i] = h0.join[t.i - 1]]
                      ELSE [h0 EXCEPT !.link[t.i] = TRUE]
           h == forward(1, h1)
       IN Commit([h EXCEPT !.out = IF out.st = "none" THEN out ELSE h.join[Len(plan)]])
    /\ UNCHANGED <<comb, plan, kstop, pc, esc, resolved>>

----------------------------------------------------------------------------
\* when_all

\* join[i] is the future of when_all(h_i, ..., h_n); fut[i] is the input h_i.
\* d1[i], d2[i]: the first / second then_wrapped() of level i, called on an
\* already available future, schedules its continuation.
RECURSIVE when_all(_, _, _, _)
RECURSIVE when_all_rest(_, _, _, _)

\* Variant: the first future is put behind the rest's tuple.
when_all_cat_reversed(i, h) ==
    [h EXCEPT !.join[i] = make_ready_tuple(h.join[i + 1].val
                                           \o <<[st |-> h.fut[i].st, err |-> h.fut[i].err]>>)]

\* The inner continuation: prepend the first future to the rest's tuple.
when_all_cat(i, h) ==
    [h EXCEPT !.join[i] = make_ready_tuple(<<[st |-> h.fut[i].st, err |-> h.fut[i].err]>>
                                           \o h.join[i + 1].val)]

\* Variant: a failed first future ends the join without the rest.
when_all_rest_short(i, h, d1, d2) ==
    IF failed(h.fut[i])
    THEN [h EXCEPT !.join[i] = make_ready_tuple(<<[st |-> h.fut[i].st,
                                                    err |-> h.fut[i].err]>>)]
    ELSE LET h1 == when_all(i + 1, h, d1, d2)
             rest == h1.join[i + 1]
         IN IF ~available(rest)
            THEN [h1 EXCEPT !.link[i + 1] = TRUE]
            ELSE IF d2[i]
                 THEN [h1 EXCEPT !.tasks = Append(@, Task(i, 2))]
                 ELSE when_all_cat(i, h1)

\* The outer continuation: join the rest, then observe its result.
when_all_rest(i, h, d1, d2) ==
    LET h1 == when_all(i + 1, h, d1, d2)
        rest == h1.join[i + 1]
    IN IF ~available(rest)
       THEN [h1 EXCEPT !.link[i + 1] = TRUE]
       ELSE IF d2[i]
            THEN [h1 EXCEPT !.tasks = Append(@, Task(i, 2))]
            ELSE when_all_cat(i, h1)

when_all(i, h, d1, d2) ==
    IF i > Len(plan)
    THEN [h EXCEPT !.join[i] = make_ready_tuple(<<>>)]
    ELSE LET h1 == [h EXCEPT !.join[i] = PendingFuture]
         IN IF ~available(h.fut[i])
            THEN [h1 EXCEPT !.cont[i] = TRUE]
            ELSE IF d1[i]
                 THEN [h1 EXCEPT !.tasks = Append(@, Task(i, 1))]
                 ELSE when_all_rest(i, h1, d1, d2)

\* The futures the caller passes to when_all.
Inputs == [i \in 1..(MaxN + 1) |-> IF i <= Len(plan) THEN ActionFuture(i) ELSE NoFuture]

\* The caller invokes when_all(h_1, ..., h_n).
Call_when_all ==
    /\ pc = "start"
    /\ comb = "when_all"
    /\ \E d1 \in Defers, d2 \in Defers :
         LET h == when_all(1, [Cur EXCEPT !.fut = Inputs, !.depth = 1], d1, d2)
         IN Commit([h EXCEPT !.out = h.join[1]])
    /\ pc' = "called"
    /\ UNCHANGED <<comb, plan, kstop, esc, resolved>>

\* The reactor runs a continuation of level t.i: the outer one (stage 1) or
\* the inner one (stage 2).  A level that resolves schedules the continuation
\* the enclosing level attached to it.
Task_when_all ==
    /\ comb = "when_all"
    /\ tasks # <<>>
    /\ \E d1 \in Defers, d2 \in Defers :
         LET t == Head(tasks)
             h0 == [Cur EXCEPT !.tasks = Tail(tasks), !.depth = 1]
             h1 == IF t.stage = 1 THEN when_all_rest(t.i, h0, d1, d2)
                                  ELSE when_all_cat(t.i, h0)
             h == IF available(h1.join[t.i]) /\ h1.link[t.i]
                  THEN [h1 EXCEPT !.tasks = Append(@, Task(t.i - 1, 2)),
                                  !.link[t.i] = FALSE]
                  ELSE h1
         IN Commit([h EXCEPT !.out = h.join[1]])
    /\ UNCHANGED <<comb, plan, kstop, pc, esc, resolved>>

----------------------------------------------------------------------------
\* The reactor

\* The reactor resolves the pending future of invocation i; a continuation
\* attached to it is scheduled.
Resolve(i) ==
    /\ fut[i].st = "pending"
    /\ KindOf(i) \in {"pok", "pfail"}
    /\ fut' = [fut EXCEPT ![i] = Outcome(i)]
    /\ resolved' = Append(resolved, i)
    /\ IF cont[i]
       THEN /\ tasks' = Append(tasks, Task(i, 1))
            /\ cont' = [cont EXCEPT ![i] = FALSE]
       ELSE UNCHANGED <<tasks, cont>>
    /\ UNCHANGED <<comb, plan, kstop, pc, started, join, link, out, esc,
                   evals, pwrites, depth>>

----------------------------------------------------------------------------

Plans == UNION {[1..n -> Kinds] : n \in 0..MaxN}

Init ==
    /\ comb \in Combinators
    /\ plan \in Plans
    /\ kstop \in 0..Len(plan)
    /\ comb # "do_until" => kstop = 0
    /\ comb = "when_all" => \A i \in 1..Len(plan) : plan[i] \in FutureKinds
    /\ pc = "start"
    /\ started = <<>>
    /\ fut = [i \in 1..(MaxN + 1) |-> NoFuture]
    /\ cont = [i \in 1..(MaxN + 1) |-> FALSE]
    /\ tasks = <<>>
    /\ join = [i \in 0..(MaxN + 1) |-> NoFuture]
    /\ link = [i \in 0..(MaxN + 1) |-> FALSE]
    /\ out = NoFuture
    /\ esc = NoErr
    /\ evals = 0
    /\ pwrites = 0
    /\ depth = 0
    /\ resolved = <<>>

Next ==
    \/ Call_do_for_each
    \/ Task_do_for_each
    \/ Call_do_until
    \/ Task_do_until
    \/ Call_keep_doing
    \/ Task_keep_doing
    \/ Call_parallel_for_each
    \/ Task_parallel_for_each
    \/ Call_when_all
    \/ Task_when_all
    \/ \E i \in 1..(MaxN + 1) : Resolve(i)

Spec == Init /\ [][Next]_vars

----------------------------------------------------------------------------
\* Properties

OkKinds == {"rok", "pok"}
FailKinds == {"rfail", "pfail"}

Elems == 1..Len(plan)

\* The action hands back a future on every invocation.
NoThrow == \A i \in Elems : plan[i] # "throw"
AlwaysSucceeds == \A i \in Elems : plan[i] \in OkKinds
FailsExactlyOn(k) ==
    /\ k \in Elems
    /\ plan[k] \in FailKinds
    /\ \A i \in Elems \ {k} : plan[i] \in OkKinds

\* The call was made, every planned future has resolved and the reactor has
\* nothing left to run.
Done ==
    /\ pc = "called"
    /\ tasks = <<>>
    /\ \A i \in Elems : fut[i].st # "pending"

Upto(n) == [i \in 1..n |-> i]
IsPrefix(s, t) == Len(s) <= Len(t) /\ \A i \in 1..Len(s) : s[i] = t[i]

\* C1: do_for_each with an action whose future fails exactly on element k
\* (ready or resolved later) invokes the action on elements 1..k only, and
\* the future it returned ends up resolved to element k's own failure.
C1_StopsAtFirstFailure ==
    \A k \in 1..MaxN :
        (comb = "do_for_each" /\ FailsExactlyOn(k)) =>
            /\ \A j \in 1..Len(started) : started[j] <= k
            /\ Done => out = make_exception_future(ErrOf(k))

\* C2: when an invocation of the action in do_until hands back a future that
\* fails (ready or resolved later), the future do_until returned ends up
\* resolved to that same failure.
C2_UntilPropagatesFailure ==
    (comb = "do_until" /\ NoThrow /\ Done) =>
        \A i \in Elems : failed(fut[i]) => out = make_exception_future(fut[i].err)

\* C3: do_for_each with an always-succeeding action invokes it on every element
\* exactly once, in order; the returned future is success only once every
\* element's future has resolved, and is success when all is done.
C3_ForEachVisitsAllInOrder ==
    (comb = "do_for_each" /\ AlwaysSucceeds) =>
        /\ IsPrefix(started, Upto(Len(plan)))
        /\ out.st # "fail"
        /\ out.st = "ok" => /\ started = Upto(Len(plan))
                            /\ \A i \in Elems : fut[i].st = "ok"
        /\ Done => out = make_ready_future

C3_Witness ==
    /\ comb = "do_for_each"
    /\ AlwaysSucceeds
    /\ Len(plan) >= 3
    /\ plan[1] = "pok" /\ plan[2] = "rok" /\ plan[3] = "pok"
    /\ started = Upto(Len(plan))
    /\ out = make_ready_future

\* C4: do_until with an always-succeeding action and a predicate that turns
\* true after exactly kstop invocations never invokes the action more than
\* kstop times, resolves to success only after kstop invocations, and when all
\* is done has invoked it exactly kstop times and resolved to success.
C4_UntilInvokesExactlyK ==
    (comb = "do_until" /\ AlwaysSucceeds) =>
        /\ Len(started) <= kstop
        /\ out.st # "fail"
        /\ out.st = "ok" => Len(started) = kstop
        /\ (pc = "called" /\ kstop = 0) => (started = <<>> /\ out = make_ready_future)
        /\ Done => (Len(started) = kstop /\ out = make_ready_future)

C4_Witness ==
    /\ comb = "do_until"
    /\ AlwaysSucceeds
    /\ kstop = 2
    /\ plan[1] = "rok" /\ plan[2] = "pok"
    /\ Len(started) = 2
    /\ out = make_ready_future

\* C5: keep_doing with an action whose first k invocations succeed and whose
\* (k+1)-th fails never invokes it more than k+1 times, and when all is done
\* has invoked it exactly k+1 times and its future is the (k+1)-th failure.
C5_KeepDoingStopsAtFailure ==
    \A k \in 0..MaxN :
        (/\ comb = "keep_doing"
         /\ k + 1 \in Elems
         /\ plan[k + 1] \in FailKinds
         /\ \A i \in 1..k : plan[i] \in OkKinds) =>
            /\ Len(started) <= k + 1
            /\ out.st = "fail" => out.err = ErrOf(k + 1)
            /\ Done => /\ started = Upto(k + 1)
                       /\ out = make_exception_future(ErrOf(k + 1))

C5_Witness ==
    /\ comb = "keep_doing"
    /\ Len(plan) >= 3
    /\ plan[1] = "rok" /\ plan[2] = "pok" /\ plan[3] \in FailKinds
    /\ started = Upto(3)
    /\ out = make_exception_future(ErrOf(3))

\* C6: the future keep_doing returned is never resolved to success.
C6_KeepDoingNeverSucceeds ==
    comb = "keep_doing" => out.st # "ok"

C6_Witness ==
    /\ comb = "keep_doing"
    /\ Len(plan) >= 3
    /\ plan[1] = "pok" /\ plan[2] = "pok" /\ plan[3] = "pfail"
    /\ Done
    /\ out.st = "fail"

\* C7: once parallel_for_each has returned its future, the action was started
\* on every element, in range order, whatever state the futures are in.
C7_ParallelStartsAll ==
    (comb = "parallel_for_each" /\ pc = "called") =>
        /\ IsPrefix(started, Upto(Len(plan)))
        /\ NoThrow => out.st # "none"
        /\ out.st # "none" => started = Upto(Len(plan))

C7_Witness ==
    /\ comb = "parallel_for_each"
    /\ Len(plan) >= 3
    /\ resolved = <<>>
    /\ fut[1].st = "fail" /\ fut[2].st = "pending" /\ fut[3].st = "pending"
    /\ out.st = "pending"
    /\ started = Upto(Len(plan))

\* C8: the future parallel_for_each returned is success only when every
\* element's future is success, and is success once all of them resolved
\* successfully and the reactor ran their continuations, in any order.
C8_ParallelSuccessIffAll ==
    (comb = "parallel_for_each" /\ NoThrow) =>
        /\ out.st = "ok" => \A i \in Elems : fut[i].st = "ok"
        /\ (Done /\ \A i \in Elems : fut[i].st = "ok") => out = make_ready_future

C8_Witness ==
    /\ comb = "parallel_for_each"
    /\ Len(plan) >= 3
    /\ \A i \in Elems : plan[i] = "pok"
    /\ IsPrefix(<<3, 1, 2>>, resolved)
    /\ Done
    /\ out = make_ready_future

\* C9: when at least one element's future failed, the future
\* parallel_for_each returned ends up failed, and a failure it carries is
\* always the failure of one of the elements' futures.
C9_ParallelFailsIfAny ==
    (comb = "parallel_for_each" /\ NoThrow) =>
        /\ out.st = "fail" => \E i \in Elems : failed(fut[i]) /\ out.err = fut[i].err
        /\ (Done /\ \E i \in Elems : failed(fut[i])) => out.st = "fail"

C9_Witness ==
    /\ comb = "parallel_for_each"
    /\ Len(plan) >= 3
    /\ plan[1] = "pfail" /\ plan[2] = "pok" /\ plan[3] = "pfail"
    /\ IsPrefix(<<3, 2, 1>>, resolved)
    /\ Done
    /\ out.st = "fail"

\* The outcome input i of when_all resolves to.
SlotOf(i) ==
    IF plan[i] \in OkKinds THEN [st |-> "ok", err |-> NoErr]
                           ELSE [st |-> "fail", err |-> ErrOf(i)]

\* C10: the future when_all returned never fails; when it is resolved its
\* tuple holds, in slot i, input i's own outcome, for every input in
\* declaration order; and it is resolved once all is done.
C10_WhenAllKeepsOutcomes ==
    comb = "when_all" =>
        /\ out.st # "fail"
        /\ out.st = "ok" => /\ Len(out.val) = Len(plan)
                            /\ \A i \in Elems : out.val[i] = SlotOf(i)
        /\ Done => out.st = "ok"

C10_Witness ==
    /\ comb = "when_all"
    /\ Len(plan) >= 2
    /\ plan[1] = "pfail" /\ plan[2] = "pok"
    /\ IsPrefix(<<2, 1>>, resolved)
    /\ out.st = "ok"
    /\ out.val[1].st = "fail" /\ out.val[2].st = "ok"

\* C11: the future when_all returned is pending in every state in which an
\* input is still pending, and once every input has resolved (in whatever
\* order, failed inputs included) and the reactor has run the scheduled
\* continuations it is resolved.
C11_WhenAllWaitsForAll ==
    comb = "when_all" =>
        /\ (\E i \in Elems : fut[i].st = "pending") => out.st = "pending"
        /\ (pc = "called" /\ tasks = <<>> /\ \A i \in Elems : available(fut[i]))
               => out.st = "ok"

C11_Witness ==
    /\ comb = "when_all"
    /\ Len(plan) >= 3
    /\ plan[1] = "pok" /\ plan[2] = "pfail" /\ plan[3] = "pok"
    /\ resolved = <<2, 3>>
    /\ tasks = <<>>
    /\ out.st = "pending"

\* C12: do_for_each and parallel_for_each called on an empty range hand
\* back a future already resolved to success and never invoke the action.
C12_EmptyRange ==
    (comb \in {"do_for_each", "parallel_for_each"} /\ plan = <<>> /\ pc = "called") =>
        /\ out = make_ready_future
        /\ started = <<>>
        /\ tasks = <<>>
        /\ \A i \in DOMAIN cont : ~cont[i]

C12_Witness ==
    /\ comb = "do_for_each"
    /\ plan = <<>>
    /\ pc = "called"
    /\ out = make_ready_future
    /\ started = <<>>

\* The first k invocations succeed and the (k+1)-th throws.
ThrowsAfter(k) ==
    /\ k + 1 \in Elems
    /\ plan[k + 1] = "throw"
    /\ \A i \in 1..k : plan[i] \in OkKinds

\* C13: an exception the action throws inside keep_doing, on the first
\* invocation or on a later one, never leaves keep_doing; it becomes the
\* failure the future keep_doing returned ends up with.
C13_KeepDoingCatchesThrow ==
    comb = "keep_doing" =>
        /\ esc = NoErr
        /\ pc = "called" => out.st # "none"
        /\ \A k \in 0..MaxN :
               ThrowsAfter(k) =>
                   /\ Len(started) <= k + 1
                   /\ out.st = "fail" => out.err = ErrOf(k + 1)
                   /\ Done => out = make_exception_future(ErrOf(k + 1))

C13_Witness ==
    /\ comb = "keep_doing"
    /\ ThrowsAfter(2)
    /\ plan[1] = "rok" /\ plan[2] = "pok"
    /\ resolved = <<2>>
    /\ started = Upto(3)
    /\ out = make_exception_future(ErrOf(3))

Sequential == {"do_for_each", "do_until", "keep_doing"}

\* C14: in do_for_each, do_until and keep_doing every invocation but the
\* last one has a resolved future: at most one action future is pending, and
\* the action is invoked again only after the previous future has resolved.
C14_OneAtATime ==
    comb \in Sequential =>
        /\ \A j \in 1..(Len(started) - 1) : fut[started[j]].st # "pending"
        /\ Cardinality({i \in DOMAIN fut : fut[i].st = "pending"}) <= 1

C14_Witness ==
    /\ comb = "do_until"
    /\ kstop = 3
    /\ plan[1] = "pok" /\ plan[2] = "pok"
    /\ started = <<1, 2>>
    /\ fut[1].st = "ok" /\ fut[2].st = "pending"

\* C15: over a run of do_until the promise p is written at most once, by
\* set_value or by forward_to, also across re-entries of do_until_continued
\* from continuations; a written p carries success exactly when the predicate
\* ended the loop.
C15_PromiseWrittenOnce ==
    comb = "do_until" =>
        /\ pwrites <= 1
        /\ pwrites = 1 => available(out)
        /\ (pwrites = 1 /\ out.st = "ok") => Len(started) >= kstop
        /\ (pwrites = 1 /\ out.st = "fail") => \E i \in Elems : failed(fut[i])

C15_Witness ==
    /\ comb = "do_until"
    /\ kstop = 3
    /\ plan[1] = "pok" /\ plan[2] = "pok" /\ plan[3] = "rfail"
    /\ resolved = <<1, 2>>
    /\ pwrites = 1
    /\ out = make_exception_future(ErrOf(3))

\* C16: once the future parallel_for_each returned is resolved, no later step
\* changes it, the action is not invoked again, and a future still pending
\* stays pending or resolves to its own outcome.
C16_ResolvedStaysResolved ==
    [][(comb = "parallel_for_each" /\ available(out)) =>
           /\ out' = out
           /\ started' = started
           /\ \A i \in Elems : fut[i].st = "pending" => fut'[i] \in {fut[i], Outcome(i)}]_vars

C16_Witness ==
    /\ comb = "parallel_for_each"
    /\ Len(plan) >= 3
    /\ plan[1] = "pfail" /\ plan[2] = "pok" /\ plan[3] = "rfail"
    /\ resolved = <<2, 1>>
    /\ tasks = <<>>
    /\ out = make_exception_future(ErrOf(3))

\* C17: once an invocation of the action in do_until has produced a failed
\* future, at return or later, that invocation stays the last one and
\* stop_cond is not evaluated after it.
C17_UntilStopsAfterFailure ==
    comb = "do_until" =>
        \A i \in Elems : failed(fut[i]) => (started = Upto(i) /\ evals = i)

C17_Witness ==
    /\ comb = "do_until"
    /\ kstop = 3
    /\ plan[1] = "rok" /\ plan[2] = "pfail"
    /\ Done
    /\ started = Upto(2)
    /\ evals = 2

AllReady == \A i \in Elems : plan[i] = "rok"

\* C18: when every action future is already resolved to success at return,
\* do_for_each and do_until attach no continuation and nest no call of
\* themselves: one frame, whatever the length of the range.
C18_NoNestingWhenReady ==
    (comb \in {"do_for_each", "do_until"} /\ AllReady /\ pc = "called") =>
        /\ depth = 1
        /\ tasks = <<>>
        /\ \A i \in DOMAIN cont : ~cont[i]
        /\ out = make_ready_future

C18_Witness ==
    /\ comb = "do_for_each"
    /\ Len(plan) >= 3
    /\ AllReady
    /\ pc = "called"
    /\ started = Upto(Len(plan))
    /\ depth = 1

\* C19: an exception thrown while the action is started never leaves the
\* entry point of do_until, do_for_each, parallel_for_each or keep_doing: the
\* call hands back a future.
C19_ThrowNeverEscapes ==
    comb \in {"do_until", "do_for_each", "parallel_for_each", "keep_doing"} =>
        /\ esc = NoErr
        /\ pc = "called" => out.st # "none"

\* The element started last among those whose future fails.
LastFailing ==
    CHOOSE m \in Elems : /\ plan[m] \in FailKinds
                         /\ \A j \in Elems : plan[j] \in FailKinds => j <= m

====
